---- MODULE Spec2Model ----
(***************************************************************************)
(* Model of the native backend of skeleton-office-tools:                   *)
(*   src-tauri/src/commands/documents.rs  the six inter-process commands   *)
(*   src-tauri/src/lib.rs                 the bootstrap (setup closure)    *)
(*                                                                         *)
(* Strings (paths, arguments, scripts' literals) are sequences of Unicode  *)
(* code points; byte payloads and header values are sequences of 0..255.   *)
(* Spec     : the file commands, each handler one atomic step.             *)
(* SpecApp  : bootstrap, dialogs and the launch-argument query.            *)
(* SpecIO   : fs::write / fs::read as the system calls they are made of.   *)
(* SpecRt   : the commands as tasks on the async runtime's worker threads. *)
(***************************************************************************)
EXTENDS Integers, Sequences, FiniteSets, TLC

VARIABLES
    args,        \* std::env::args().collect(): the process's argument list
    fs,          \* the filesystem: path -> None | Some(contents)
    last,        \* the last command invoked: its inputs and its result
    returned,    \* every value get_file_opened_with has returned so far
    setupDone,   \* the setup closure has run
    evalQueue,   \* scripts handed to window.eval, not yet run by the webview
    evalCount,   \* number of window.eval calls made by the bootstrap
    assignCount, \* number of assignments to window.__OPENED_FILE__ performed
    openedFile,  \* the front-end global window.__OPENED_FILE__
    io,          \* SpecIO: the in-flight file operations, step by step
    inv,         \* SpecRt: the command invocations
    queue,       \* SpecRt: the spawned tasks waiting for a worker, oldest first
    workers      \* SpecRt: what each runtime worker thread is running

vars == <<args, fs, last, returned, setupDone, evalQueue, evalCount,
          assignCount, openedFile, io, inv, queue, workers>>

----------------------------------------------------------------------------
(* Option<T> and Result<T, String> *)

None == <<>>
Some(x) == <<x>>
IsSome(o) == o # <<>>
Unwrap(o) == o[1]

\* Ok(v) carries a value; Err(e) carries only the message.
Ok(v) == [ok |-> TRUE, val |-> v]
Err(e) == [ok |-> FALSE, err |-> e]
Unit == "()"

\* format!("<prefix>: {}", e)
Format(prefix, e) == <<prefix, e>>

----------------------------------------------------------------------------
(* Bounds and input sets *)

\* Longest byte payload written.
MaxLen == 2

\* Payload bytes are slices of the pattern 0, 255, 254, ... (both ends of u8).
PatternByte(i) == ((i - 1) * 255) % 256
Pattern == [i \in 1..MaxLen |-> PatternByte(i)]
Payloads == {SubSeq(Pattern, i, j) : i \in 1..MaxLen, j \in 0..MaxLen}

\* "/a", "/é": regular, writable locations; "": resolves to no location.
PathA == <<47, 97>>
PathE == <<47, 233>>
PathEmpty == <<>>
WritablePaths == {PathA, PathE}
Paths == WritablePaths \cup {PathEmpty}

----------------------------------------------------------------------------
(* JSON values, as far as serde_json::from_value::<Vec<u8>> tells them apart *)

\* Array elements: an integer n, a non-integral number, a string, null.
JInt(n) == [t |-> "int", n |-> n]
JFloat(n) == [t |-> "float", n |-> n]
JStrElem == [t |-> "str", n |-> 0]
JNullElem == [t |-> "null", n |-> 0]

\* Values: an array of elements, or a non-array of the given type.
JArr(items) == [t |-> "arr", items |-> items]
JScalar(t) == [t |-> t, items |-> <<>>]

\* The structured encoding of a byte sequence: the JSON array of its numbers.
JsonOfBytes(b) == JArr([i \in 1..Len(b) |-> JInt(b[i])])

\* Structured bodies that encode no byte sequence.
InvalidJson ==
    { JScalar("null"), JScalar("string"), JScalar("object"), JScalar("number"),
      JArr(<<JInt(256)>>), JArr(<<JInt(-1)>>), JArr(<<JInt(0), JFloat(1)>>),
      JArr(<<JStrElem>>), JArr(<<JInt(255), JNullElem>>) }

JsonBodies == {JsonOfBytes(b) : b \in Payloads} \cup InvalidJson

\* serde_json::from_value::<Vec<u8>>(value): a sequence whose every element
\* is an integer that fits u8, else the error of the first element that is not.
FromValueVecU8(v) ==
    IF v.t # "arr" THEN Err("invalid type: expected a sequence")
    ELSE LET bad == {i \in 1..Len(v.items) :
                        v.items[i].t # "int" \/ v.items[i].n \notin 0..255}
         IN  IF bad = {} THEN Ok([i \in 1..Len(v.items) |-> v.items[i].n])
             ELSE LET k == CHOOSE i \in bad : \A j \in bad : i <= j
                  IN  IF v.items[k].t # "int"
                      THEN Err("invalid type: expected u8")
                      ELSE Err("invalid value: expected u8")

----------------------------------------------------------------------------
(* tauri::ipc::Request: the X-File-Path header and the body *)

\* UTF-8 of a string of code points below 2048.
Utf8Char(c) == IF c < 128 THEN <<c>> ELSE <<192 + (c \div 64), 128 + (c % 64)>>
RECURSIVE Utf8(_)
Utf8(s) == IF s = <<>> THEN <<>> ELSE Utf8Char(Head(s)) \o Utf8(Tail(s))

\* Header values a request may carry: each path as UTF-8, and "/é" as the
\* single Latin-1 byte a fetch() header holds.
HeaderValues == {Utf8(p) : p \in Paths} \cup {PathE}
Headers == {None} \cup {Some(v) : v \in HeaderValues}

\* InvokeBody::Raw(bytes) | InvokeBody::Json(value)
Raw(b) == [kind |-> "Raw", bytes |-> b, json |-> JScalar("null")]
Json(v) == [kind |-> "Json", bytes |-> <<>>, json |-> v]
Bodies == {Raw(b) : b \in Payloads} \cup {Json(v) : v \in JsonBodies}

Requests == [header : Headers, body : Bodies]

\* HeaderValue::to_str: the text, if every byte is visible ASCII (or a tab).
IsVisibleAscii(b) == (b >= 32 /\ b < 127) \/ b = 9
ToStr(v) == IF \A i \in 1..Len(v) : IsVisibleAscii(v[i]) THEN Some(v) ELSE None

\* request.headers().get("X-File-Path").and_then(|v| v.to_str().ok())
RequestPath_Lossy(request) == request.header

RequestPath(request) ==
    IF request.header = None THEN None ELSE ToStr(Unwrap(request.header))

\* match request.body() { Raw(bytes) => bytes.clone(), Json(value) => from_value(..) }
RequestData_OrDefault(request) ==
    IF request.body.kind = "Raw" THEN Ok(request.body.bytes)
    ELSE LET d == FromValueVecU8(request.body.json)
         IN  IF d.ok THEN d ELSE Ok(<<>>)

RequestData(request) ==
    IF request.body.kind = "Raw" THEN Ok(request.body.bytes)
    ELSE LET d == FromValueVecU8(request.body.json)
         IN  IF d.ok THEN d ELSE Err(Format("Failed to deserialize data", d.err))

----------------------------------------------------------------------------
(* std::fs on whole files, and the three file commands *)

\* fs::read(path): the whole contents of an existing file.
FsRead(f, path) ==
    IF path \in DOMAIN f /\ IsSome(f[path]) THEN Ok(Unwrap(f[path]))
    ELSE Err("NotFound")

\* fs::write(path, data): creates or replaces the file at a writable location.
FsWrite(f, path, data) ==
    IF path \in WritablePaths
    THEN [result |-> Ok(Unit), fs |-> [f EXCEPT ![path] = Some(data)]]
    ELSE [result |-> Err("NotFound"), fs |-> f]

read_file_bytes_OrDefault(f, path) ==
    LET r == FsRead(f, path) IN IF r.ok THEN r ELSE Ok(<<>>)

read_file_bytes(f, path) ==
    LET r == FsRead(f, path)
    IN  IF r.ok THEN r ELSE Err(Format("Failed to read file", r.err))

\* data: Vec<u8> arrives as the structured (JSON) argument of the invocation.
write_file_bytes(f, path, data) ==
    LET d == FromValueVecU8(data)
    IN  IF ~d.ok THEN [result |-> Err(Format("invalid args: data", d.err)), fs |-> f]
        ELSE LET w == FsWrite(f, path, d.val)
             IN  IF w.result.ok THEN w
                 ELSE [result |-> Err(Format("Failed to write file", w.result.err)),
                       fs |-> w.fs]

write_file_bytes_raw(f, request) ==
    LET path == RequestPath(request)
        data == RequestData(request)
    IN  IF path = None
        THEN [result |-> Err(<<"Missing X-File-Path header">>), fs |-> f]
        ELSE IF ~data.ok
        THEN [result |-> data, fs |-> f]
        ELSE LET w == FsWrite(f, Unwrap(path), data.val)
             IN  IF w.result.ok THEN w
                 ELSE [result |-> Err(Format("Failed to write file", w.result.err)),
                       fs |-> w.fs]

----------------------------------------------------------------------------
(* The launch argument: get_file_opened_with and the bootstrap's injection *)

ExePath == <<47, 120>>

\* Second arguments: "/a", a quote, "a\", a line feed, a control character, "é".
ArgStrs == {PathA, <<34>>, <<97, 92>>, <<10>>, <<1>>, <<233>>}
ArgLists ==
    {<<>>, <<ExePath>>} \cup {<<ExePath, s>> : s \in ArgStrs}
        \cup {<<ExePath, PathA, PathE>>}

\* args.len() > 1 ? Some(args[1].clone()) : None   (args[1] is the 2nd element)
get_file_opened_with_First(a) ==
    IF Len(a) > 0 THEN Some(a[1]) ELSE None

get_file_opened_with(a) ==
    IF Len(a) > 1 THEN Some(a[2]) ELSE None

\* serde_json::to_string(&String): quoted, with ", \ and control characters
\* escaped (short forms for \b \t \n \f \r, \u00XX otherwise).
Hex(n) == IF n < 10 THEN 48 + n ELSE 87 + n
EscapeChar(c) ==
    CASE c = 34 -> <<92, 34>>
      [] c = 92 -> <<92, 92>>
      [] c = 8  -> <<92, 98>>
      [] c = 9  -> <<92, 116>>
      [] c = 10 -> <<92, 110>>
      [] c = 12 -> <<92, 102>>
      [] c = 13 -> <<92, 114>>
      [] c < 32 /\ c \notin {8, 9, 10, 12, 13} ->
            <<92, 117, 48, 48, Hex(c \div 16), Hex(c % 16)>>
      [] OTHER -> <<c>>
RECURSIVE Escape(_)
Escape(s) == IF s = <<>> THEN <<>> ELSE EscapeChar(Head(s)) \o Escape(Tail(s))

JsonString_Unescaped(s) == <<34>> \o s \o <<34>>

JsonString(s) == <<34>> \o Escape(s) \o <<34>>

\* format!("window.__OPENED_FILE__ = {};", json)
Script(json) == [lhs |-> "window.__OPENED_FILE__", rhs |-> json]

\* The webview evaluating the right-hand side as a double-quoted string
\* literal: its value, or a SyntaxError.
HexVal(d) ==
    IF d \in 48..57 THEN d - 48
    ELSE IF d \in 97..102 THEN d - 87
    ELSE IF d \in 65..70 THEN d - 55 ELSE -1
Unescape(e) ==
    CASE e = 98 -> 8 [] e = 116 -> 9 [] e = 110 -> 10
      [] e = 102 -> 12 [] e = 114 -> 13 [] OTHER -> e
Cons(c, r) == IF r.ok THEN Ok(<<c>> \o r.val) ELSE r
RECURSIVE JsChars(_, _)
JsChars(s, i) ==
    IF i > Len(s) THEN Err("SyntaxError")
    ELSE IF s[i] = 34 THEN (IF i = Len(s) THEN Ok(<<>>) ELSE Err("SyntaxError"))
    ELSE IF s[i] \in {10, 13} THEN Err("SyntaxError")
    ELSE IF s[i] # 92 THEN Cons(s[i], JsChars(s, i + 1))
    ELSE IF i + 1 > Len(s) THEN Err("SyntaxError")
    ELSE IF s[i + 1] # 117 THEN Cons(Unescape(s[i + 1]), JsChars(s, i + 2))
    ELSE IF i + 5 > Len(s) \/ \E k \in 2..5 : HexVal(s[i + k]) < 0
         THEN Err("SyntaxError")
    ELSE Cons(4096 * HexVal(s[i + 2]) + 256 * HexVal(s[i + 3])
                + 16 * HexVal(s[i + 4]) + HexVal(s[i + 5]),
              JsChars(s, i + 6))
JsStringLiteral(rhs) ==
    IF Len(rhs) >= 2 /\ rhs[1] = 34 THEN JsChars(rhs, 2) ELSE Err("SyntaxError")

----------------------------------------------------------------------------
(* The native dialogs *)

Filter(name, extensions) == [name |-> name, extensions |-> extensions]

\* app.dialog().file().add_filter("PDF Files", &["pdf"]).add_filter("All Files", &["*"])
open_file_dialog_builder ==
    [filters |-> <<Filter("PDF Files", <<"pdf">>), Filter("All Files", <<"*">>)>>,
     file_name |-> None]

\* app.dialog().file().add_filter("PDF Files", &["pdf"]), then set_file_name
save_file_dialog_builder_AllFiles(default_name) ==
    [filters |-> <<Filter("PDF Files", <<"pdf">>), Filter("All Files", <<"*">>)>>,
     file_name |-> default_name]

save_file_dialog_builder(default_name) ==
    [filters |-> <<Filter("PDF Files", <<"pdf">>)>>,
     file_name |-> default_name]

\* What the user does with a dialog: cancels, or selects a file.
FilePath(text) == [kind |-> "Path", text |-> text]
FilePathToString(file) == file.text
DialogResponses == {None} \cup {Some(FilePath(p)) : p \in WritablePaths}
DefaultNames == {None, Some(<<97>>)}

\* match file { Some(path) => Ok(Some(path.to_string())), None => Ok(None) }
DialogResult_CancelIsError(file) ==
    IF file = None THEN Err("No file selected")
    ELSE Ok(Some(FilePathToString(Unwrap(file))))

DialogResult(file) ==
    IF file = None THEN Ok(None) ELSE Ok(Some(FilePathToString(Unwrap(file))))

----------------------------------------------------------------------------
(* Concurrent invocations: bounds and idle values *)

\* File operations in flight at once (SpecIO).
MaxOps == 3
OpIds == 1..MaxOps
IdleOp == [cmd |-> "none", pc |-> "idle"]

\* Worker threads of the async runtime that runs the `async fn` commands (one
\* per processor core by default), and invocations made (SpecRt).
NumWorkers == 2
MaxInv == 3
WorkerIds == 1..NumWorkers
InvIds == 1..MaxInv
IdleInv == [cmd |-> "none", st |-> "none"]

----------------------------------------------------------------------------
(* The commands as atomic steps: Spec and SpecApp *)

WriteCmds == {"write_file_bytes", "write_file_bytes_raw"}

\* What a read remembers of the step before it: a write in full, else its name.
Strip(l) == IF l.cmd \in WriteCmds THEN l ELSE [cmd |-> l.cmd]

appVars == <<args, returned, setupDone, evalQueue, evalCount, assignCount, openedFile>>
rtVars == <<io, inv, queue, workers>>

\* lib.rs: the setup closure, run once before the commands are served.
Setup ==
    /\ ~setupDone
    /\ setupDone' = TRUE
    /\ IF Len(args) > 1
       THEN LET file_path == args[2]
            IN  /\ evalQueue' = Append(evalQueue, Script(JsonString(file_path)))
                /\ evalCount' = evalCount + 1
       ELSE UNCHANGED <<evalQueue, evalCount>>
    /\ last' = [cmd |-> "setup"]
    /\ UNCHANGED <<args, fs, returned, assignCount, openedFile, rtVars>>

\* The webview runs a script handed to window.eval.
WebviewEval ==
    /\ evalQueue # <<>>
    /\ LET script == Head(evalQueue)
           value == JsStringLiteral(script.rhs)
       IN  /\ IF value.ok
              THEN /\ openedFile' = Some(value.val)
                   /\ assignCount' = assignCount + 1
              ELSE UNCHANGED <<openedFile, assignCount>>
           /\ last' = [cmd |-> "eval", script |-> script]
    /\ evalQueue' = Tail(evalQueue)
    /\ UNCHANGED <<args, fs, returned, setupDone, evalCount, rtVars>>

GetFileOpenedWith ==
    /\ setupDone
    /\ LET r == get_file_opened_with(args)
       IN  /\ last' = [cmd |-> "get_file_opened_with", result |-> r]
           /\ returned' = returned \cup {r}
    /\ UNCHANGED <<args, fs, setupDone, evalQueue, evalCount, assignCount,
                   openedFile, rtVars>>

OpenFileDialog(response) ==
    /\ setupDone
    /\ last' = [cmd |-> "open_file_dialog", dialog |-> open_file_dialog_builder,
                response |-> response, result |-> DialogResult(response)]
    /\ UNCHANGED <<fs, appVars, rtVars>>

SaveFileDialog(default_name, response) ==
    /\ setupDone
    /\ last' = [cmd |-> "save_file_dialog", default_name |-> default_name,
                dialog |-> save_file_dialog_builder(default_name),
                response |-> response, result |-> DialogResult(response)]
    /\ UNCHANGED <<fs, appVars, rtVars>>

ReadFileBytes(path) ==
    /\ setupDone
    /\ last' = [cmd |-> "read_file_bytes", path |-> path,
                result |-> read_file_bytes(fs, path), prev |-> Strip(last)]
    /\ UNCHANGED <<fs, appVars, rtVars>>

WriteFileBytes(path, data) ==
    /\ setupDone
    /\ LET w == write_file_bytes(fs, path, data)
       IN  /\ fs' = w.fs
           /\ last' = [cmd |-> "write_file_bytes", path |-> path, data |-> data,
                       result |-> w.result]
    /\ UNCHANGED <<appVars, rtVars>>

WriteFileBytesRaw(request) ==
    /\ setupDone
    /\ LET w == write_file_bytes_raw(fs, request)
       IN  /\ fs' = w.fs
           /\ last' = [cmd |-> "write_file_bytes_raw", request |-> request,
                       result |-> w.result]
    /\ UNCHANGED <<appVars, rtVars>>

Init ==
    /\ args \in ArgLists
    /\ fs = [p \in Paths |-> None]
    /\ last = [cmd |-> "none"]
    /\ returned = {}
    /\ setupDone = FALSE
    /\ evalQueue = <<>>
    /\ evalCount = 0
    /\ assignCount = 0
    /\ openedFile = None
    /\ io = [o \in OpIds |-> IdleOp]
    /\ inv = [i \in InvIds |-> IdleInv]
    /\ queue = <<>>
    /\ workers = [w \in WorkerIds |-> 0]

\* Spec: the file commands on every input, in a process started without a file.
InitFiles == Init /\ args = <<ExePath>>

Next ==
    \/ Setup
    \/ \E path \in Paths : ReadFileBytes(path)
    \/ \E path \in Paths, data \in JsonBodies : WriteFileBytes(path, data)
    \/ \E request \in Requests : WriteFileBytesRaw(request)

Spec == InitFiles /\ [][Next]_vars

\* SpecApp: every command and the bootstrap, for every argument list; the file
\* commands on one payload.
AppPayload == <<PatternByte(1)>>
AppRequests ==
    [header : {None, Some(Utf8(PathA))}, body : {Raw(AppPayload)}]

NextApp ==
    \/ Setup
    \/ WebviewEval
    \/ GetFileOpenedWith
    \/ \E response \in DialogResponses : OpenFileDialog(response)
    \/ \E default_name \in DefaultNames, response \in DialogResponses :
            SaveFileDialog(default_name, response)
    \/ \E path \in Paths : ReadFileBytes(path)
    \/ \E path \in WritablePaths : WriteFileBytes(path, JsonOfBytes(AppPayload))
    \/ \E request \in AppRequests : WriteFileBytesRaw(request)

SpecApp == Init /\ [][NextApp]_vars

----------------------------------------------------------------------------
(* Claims about the file commands (Spec) *)

\* The step before the read asked for b to be written to path p: by
\* write_file_bytes(p, b), or by write_file_bytes_raw with p in the header and
\* b as a raw body or as its JSON number array.
WroteTo(l, p, b) ==
    \/ /\ l.cmd = "write_file_bytes"
       /\ l.path = p
       /\ l.data = JsonOfBytes(b)
    \/ /\ l.cmd = "write_file_bytes_raw"
       /\ l.request.header = Some(Utf8(p))
       /\ l.request.body \in {Raw(b), Json(JsonOfBytes(b))}

\* C1: round trip. Writing B to a valid writable path P by either write
\* command, in either encoding, and then reading P returns exactly B.
C1_RoundTrip ==
    last.cmd = "read_file_bytes" =>
        \A p \in WritablePaths, b \in Payloads :
            (last.path = p /\ WroteTo(last.prev, p, b)) =>
                (last.result.ok /\ last.result.val = b)

\* The header is absent, or holds a byte that is not text.
NoTextHeader(request) ==
    \/ request.header = None
    \/ \E i \in 1..Len(Unwrap(request.header)) :
            LET c == Unwrap(request.header)[i]
            IN  c > 126 \/ (c < 32 /\ c # 9)

\* C2: a write_file_bytes_raw request whose X-File-Path header is absent or
\* not valid text returns the missing-path error, whatever its body, and
\* leaves the filesystem exactly as it was.
C2_MissingPathNoWrite ==
    [][ (last'.cmd = "write_file_bytes_raw" /\ NoTextHeader(last'.request)) =>
            /\ ~last'.result.ok
            /\ last'.result.err = <<"Missing X-File-Path header">>
            /\ fs' = fs ]_vars

\* A request without a valid path header and with a non-empty raw body was
\* rejected while the file its header names exists.
C2_Witness ==
    /\ last.cmd = "write_file_bytes_raw"
    /\ last.request.header = Some(Utf8(PathE))
    /\ last.request.body.kind = "Raw"
    /\ last.request.body.bytes # <<>>
    /\ ~last.result.ok
    /\ IsSome(fs[PathE])

\* Not a byte-array encoding: not an array, or an element that is no integer
\* of 0..255.
NotByteArray(v) ==
    \/ v.t # "arr"
    \/ \E i \in 1..Len(v.items) : v.items[i].t # "int" \/ v.items[i].n \notin 0..255

\* C3: a write_file_bytes_raw request with a path header and a JSON body that
\* is not a byte-array encoding returns a decode error and leaves the
\* filesystem, the file at the header's path included, exactly as it was.
C3_DecodeErrorNoWrite ==
    [][ ( /\ last'.cmd = "write_file_bytes_raw"
          /\ ~NoTextHeader(last'.request)
          /\ last'.request.body.kind = "Json"
          /\ NotByteArray(last'.request.body.json) ) =>
            /\ ~last'.result.ok
            /\ last'.result.err[1] = "Failed to deserialize data"
            /\ fs' = fs ]_vars

\* An array with an element above 255, sent for an existing file, was rejected.
C3_Witness ==
    /\ last.cmd = "write_file_bytes_raw"
    /\ last.request.header = Some(Utf8(PathA))
    /\ last.request.body = Json(JArr(<<JInt(256)>>))
    /\ ~last.result.ok
    /\ IsSome(fs[PathA])
    /\ Unwrap(fs[PathA]) # <<>>

\* C6: read_file_bytes of a path that does not exist returns an I/O error
\* and no bytes, and neither creates the file nor changes the filesystem.
C6_ReadMissing ==
    [][ (last'.cmd = "read_file_bytes" /\ fs[last'.path] = None) =>
            /\ ~last'.result.ok
            /\ last'.result.err[1] = "Failed to read file"
            /\ "val" \notin DOMAIN last'.result
            /\ fs' = fs ]_vars

\* A writable path that holds no file was read, while another file exists.
C6_Witness ==
    /\ last.cmd = "read_file_bytes"
    /\ last.path = PathA
    /\ fs[PathA] = None
    /\ IsSome(fs[PathE])
    /\ ~last.result.ok

----------------------------------------------------------------------------
(* Claims about the launch argument and the dialogs (SpecApp) *)

\* C4: get_file_opened_with returns the same value on every call of a
\* process, whatever runs in between: the second startup argument when there
\* is one, absent when the list holds only the executable path; and the call
\* changes no state.
C4_SameLaunchArg ==
    [][ last'.cmd = "get_file_opened_with" =>
            /\ (Len(args) >= 2 => last'.result = Some(args[2]))
            /\ (Len(args) <= 1 => last'.result = None)
            /\ \A r \in returned' : r = last'.result
            /\ UNCHANGED <<args, fs, setupDone, evalQueue, evalCount,
                           assignCount, openedFile>> ]_vars

\* The query answered with the second of three arguments after files were
\* written and the front-end global was assigned.
C4_Witness ==
    /\ last.cmd = "get_file_opened_with"
    /\ Len(args) = 3
    /\ returned = {Some(PathA)}
    /\ IsSome(fs[PathA])
    /\ assignCount = 1

\* C5: a cancelled dialog (no selection) makes open_file_dialog and
\* save_file_dialog return a successful result holding an absent path, never
\* an error; a selection makes them return a successful result holding the
\* selected path.
C5_CancelIsAbsent ==
    last.cmd \in {"open_file_dialog", "save_file_dialog"} =>
        /\ last.result.ok
        /\ (last.response = None => last.result.val = None)
        /\ (last.response # None =>
                last.result.val = Some(Unwrap(last.response).text))

\* A save dialog with a suggested name was cancelled.
C5_Witness ==
    /\ last.cmd = "save_file_dialog"
    /\ last.default_name # None
    /\ last.response = None
    /\ last.result.ok

C9_SameFilters ==
    last.cmd = "save_file_dialog" =>
        last.dialog.filters = open_file_dialog_builder.filters

\* C9 as amended: save_file_dialog presents only the primary document-type
\* filter, the first of open_file_dialog's two filters, with or without a
\* default file name; the all-files catch-all is offered by open_file_dialog
\* alone.
C9_SavePrimaryFilterOnly ==
    /\ last.cmd = "save_file_dialog" =>
            /\ last.dialog.filters = <<Filter("PDF Files", <<"pdf">>)>>
            /\ last.dialog.filters = SubSeq(open_file_dialog_builder.filters, 1, 1)
            /\ last.dialog.file_name = last.default_name
    /\ last.cmd = "open_file_dialog" =>
            /\ Len(last.dialog.filters) = 2
            /\ last.dialog.filters[2] = Filter("All Files", <<"*">>)

\* A save dialog with a suggested name was presented and a file selected.
C9_Witness ==
    /\ last.cmd = "save_file_dialog"
    /\ last.default_name # None
    /\ last.response # None
    /\ Len(last.dialog.filters) = 1

----------------------------------------------------------------------------
(* SpecIO: fs::write and fs::read as the system calls they make *)

IoPath == PathA
IoPayloads == Payloads \ {<<>>}

\* A write system call of chunk at byte offset off (a gap reads as zeros).
Overwrite(c, off, chunk) ==
    LET n == IF Len(c) > off + Len(chunk) THEN Len(c) ELSE off + Len(chunk)
    IN  [k \in 1..n |->
            IF k > off /\ k <= off + Len(chunk) THEN chunk[k - off]
            ELSE IF k <= Len(c) THEN c[k] ELSE 0]

ioRest == <<args, last, returned, setupDone, evalQueue, evalCount, assignCount,
            openedFile, inv, queue, workers>>

\* write_file_bytes(path, data) is invoked: the argument is decoded.
IoInvokeWrite(o, b) ==
    /\ setupDone
    /\ io[o].cmd = "none"
    /\ LET d == FromValueVecU8(JsonOfBytes(b))
       IN  io' = [io EXCEPT ![o] = [cmd |-> "write_file_bytes", pc |-> "create",
                                    path |-> IoPath, data |-> d.val, off |-> 0]]
    /\ UNCHANGED <<fs, ioRest>>

\* write_file_bytes_raw(request) is invoked: path and data are resolved.
IoInvokeWriteRaw(o, request) ==
    /\ setupDone
    /\ io[o].cmd = "none"
    /\ LET path == RequestPath(request)
           data == RequestData(request)
       IN  io' = [io EXCEPT ![o] =
                    IF path = None
                    THEN [cmd |-> "write_file_bytes_raw", pc |-> "done",
                          result |-> Err(<<"Missing X-File-Path header">>)]
                    ELSE IF ~data.ok
                    THEN [cmd |-> "write_file_bytes_raw", pc |-> "done",
                          result |-> data]
                    ELSE [cmd |-> "write_file_bytes_raw", pc |-> "create",
                          path |-> Unwrap(path), data |-> data.val, off |-> 0]]
    /\ UNCHANGED <<fs, ioRest>>

IoInvokeRead(o) ==
    /\ setupDone
    /\ io[o].cmd = "none"
    /\ io' = [io EXCEPT ![o] = [cmd |-> "read_file_bytes", pc |-> "open",
                                path |-> IoPath]]
    /\ UNCHANGED <<fs, ioRest>>

\* fs::write, first call: File::create opens the file, truncating it.
WriteCreate(o) ==
    /\ io[o].pc = "create"
    /\ IF io[o].path \in WritablePaths
       THEN /\ fs' = [fs EXCEPT ![io[o].path] = Some(<<>>)]
            /\ io' = [io EXCEPT ![o] =
                        IF io[o].data = <<>>
                        THEN [cmd |-> io[o].cmd, pc |-> "done", path |-> io[o].path,
                              data |-> io[o].data, result |-> Ok(Unit)]
                        ELSE [io[o] EXCEPT !.pc = "write"]]
       ELSE /\ fs' = fs
            /\ io' = [io EXCEPT ![o] =
                        [cmd |-> io[o].cmd, pc |-> "done", path |-> io[o].path,
                         data |-> io[o].data,
                         result |-> Err(Format("Failed to write file", "NotFound"))]]
    /\ UNCHANGED ioRest

\* fs::write, write_all: one write call stores the next k bytes.
WriteChunk(o, k) ==
    /\ io[o].pc = "write"
    /\ k \in 1..(Len(io[o].data) - io[o].off)
    /\ LET chunk == SubSeq(io[o].data, io[o].off + 1, io[o].off + k)
       IN  fs' = [fs EXCEPT ![io[o].path] =
                    Some(Overwrite(Unwrap(fs[io[o].path]), io[o].off, chunk))]
    /\ io' = [io EXCEPT ![o] =
                IF io[o].off + k = Len(io[o].data)
                THEN [cmd |-> io[o].cmd, pc |-> "done", path |-> io[o].path,
                      data |-> io[o].data, result |-> Ok(Unit)]
                ELSE [io[o] EXCEPT !.off = io[o].off + k]]
    /\ UNCHANGED ioRest

\* fs::write, write_all: a write call fails (disk full, I/O error).
WriteFail(o) ==
    /\ io[o].pc = "write"
    /\ io' = [io EXCEPT ![o] =
                [cmd |-> io[o].cmd, pc |-> "done", path |-> io[o].path,
                 data |-> io[o].data,
                 result |-> Err(Format("Failed to write file", "StorageFull"))]]
    /\ UNCHANGED <<fs, ioRest>>

\* fs::read, first call: File::open.
ReadOpen(o) ==
    /\ io[o].pc = "open"
    /\ io' = [io EXCEPT ![o] =
                IF IsSome(fs[io[o].path])
                THEN [cmd |-> io[o].cmd, pc |-> "read", path |-> io[o].path,
                      off |-> 0, buf |-> <<>>]
                ELSE [cmd |-> io[o].cmd, pc |-> "done", path |-> io[o].path,
                      result |-> Err(Format("Failed to read file", "NotFound"))]]
    /\ UNCHANGED <<fs, ioRest>>

\* fs::read, read_to_end: one read call returns the next k bytes.
ReadChunk(o, k) ==
    /\ io[o].pc = "read"
    /\ k \in 1..(Len(Unwrap(fs[io[o].path])) - io[o].off)
    /\ io' = [io EXCEPT ![o].off = io[o].off + k,
                        ![o].buf = io[o].buf \o
                            SubSeq(Unwrap(fs[io[o].path]), io[o].off + 1, io[o].off + k)]
    /\ UNCHANGED <<fs, ioRest>>

\* fs::read, read_to_end: a read call returns 0 bytes, the end of the file.
ReadEof(o) ==
    /\ io[o].pc = "read"
    /\ io[o].off >= Len(Unwrap(fs[io[o].path]))
    /\ io' = [io EXCEPT ![o] =
                [cmd |-> io[o].cmd, pc |-> "done", path |-> io[o].path,
                 result |-> Ok(io[o].buf)]]
    /\ UNCHANGED <<fs, ioRest>>

NextIO ==
    \/ Setup
    \/ \E o \in OpIds, b \in IoPayloads : IoInvokeWrite(o, b)
    \/ \E o \in OpIds, b \in IoPayloads :
            IoInvokeWriteRaw(o, [header |-> Some(Utf8(IoPath)), body |-> Raw(b)])
    \/ \E o \in OpIds : IoInvokeRead(o)
    \/ \E o \in OpIds : WriteCreate(o)
    \/ \E o \in OpIds, k \in 1..MaxLen : WriteChunk(o, k)
    \/ \E o \in OpIds : WriteFail(o)
    \/ \E o \in OpIds : ReadOpen(o)
    \/ \E o \in OpIds, k \in 1..MaxLen : ReadChunk(o, k)
    \/ \E o \in OpIds : ReadEof(o)

SpecIO == InitFiles /\ [][NextIO]_vars

\* C10: whole-payload atomicity. In every interleaving of concurrent writes
\* and reads of one path, and after a write that failed part-way, a read
\* returns the complete contents before a write or the complete payload of
\* one write: never an empty, truncated or mixed payload. (The path holds no
\* file at the start, so a successful read returns some write's payload.)
C10_WholePayload ==
    \A o \in OpIds :
        (io[o].cmd = "read_file_bytes" /\ io[o].pc = "done" /\ io[o].result.ok) =>
            \E u \in OpIds :
                /\ io[u].cmd \in WriteCmds
                /\ io[u].pc # "done" \/ "data" \in DOMAIN io[u]
                /\ io[u].data = io[o].result.val

----------------------------------------------------------------------------
(* SpecRt: the commands as tasks of the async runtime *)

DialogCmds == {"open_file_dialog", "save_file_dialog"}
FileCmds == {"read_file_bytes", "write_file_bytes", "write_file_bytes_raw"}
AsyncCmds == DialogCmds \cup FileCmds

rtRest == <<args, last, returned, setupDone, evalQueue, evalCount, assignCount,
            openedFile, io>>

\* The front-end invokes a command declared `async fn`: its future is spawned
\* on the runtime and waits for a worker thread.
InvokeAsync(i, cmd) ==
    /\ setupDone
    /\ inv[i].st = "none"
    /\ cmd \in AsyncCmds
    /\ inv' = [inv EXCEPT ![i] = [cmd |-> cmd, st |-> "queued"]]
    /\ queue' = Append(queue, i)
    /\ UNCHANGED <<fs, workers, rtRest>>

\* get_file_opened_with is a plain `fn`: it runs where it is invoked.
InvokeSync(i) ==
    /\ setupDone
    /\ inv[i].st = "none"
    /\ inv' = [inv EXCEPT ![i] = [cmd |-> "get_file_opened_with", st |-> "done",
                                  result |-> get_file_opened_with(args)]]
    /\ UNCHANGED <<fs, queue, workers, rtRest>>

\* An idle worker thread takes the oldest spawned task.
Poll(w) ==
    /\ workers[w] = 0
    /\ queue # <<>>
    /\ workers' = [workers EXCEPT ![w] = Head(queue)]
    /\ inv' = [inv EXCEPT ![Head(queue)].st = "running"]
    /\ queue' = Tail(queue)
    /\ UNCHANGED <<fs, rtRest>>

\* The worker runs a file command's handler to its end.
RunFile(w) ==
    /\ workers[w] # 0
    /\ inv[workers[w]].st = "running"
    /\ inv[workers[w]].cmd \in FileCmds
    /\ LET i == workers[w]
           r == CASE inv[i].cmd = "read_file_bytes" ->
                        [result |-> read_file_bytes(fs, PathA), fs |-> fs]
                  [] inv[i].cmd = "write_file_bytes" ->
                        write_file_bytes(fs, PathA, JsonOfBytes(AppPayload))
                  [] inv[i].cmd = "write_file_bytes_raw" ->
                        write_file_bytes_raw(fs, [header |-> Some(Utf8(PathA)),
                                                  body |-> Raw(AppPayload)])
       IN  /\ fs' = r.fs
           /\ inv' = [inv EXCEPT ![i] = [cmd |-> inv[i].cmd, st |-> "done",
                                         result |-> r.result]]
    /\ workers' = [workers EXCEPT ![w] = 0]
    /\ UNCHANGED <<queue, rtRest>>

\* The worker runs a dialog command up to blocking_pick_file /
\* blocking_save_file, which blocks the thread until the user responds.
ShowDialog(w) ==
    /\ workers[w] # 0
    /\ inv[workers[w]].st = "running"
    /\ inv[workers[w]].cmd \in DialogCmds
    /\ inv' = [inv EXCEPT ![workers[w]].st = "blocked"]
    /\ UNCHANGED <<fs, queue, workers, rtRest>>

\* The user selects a file or cancels: the blocking call returns, the handler
\* returns its result and the worker thread is free again.
UserResponds(w, response) ==
    /\ workers[w] # 0
    /\ inv[workers[w]].st = "blocked"
    /\ inv' = [inv EXCEPT ![workers[w]] =
                [cmd |-> inv[workers[w]].cmd, st |-> "done",
                 result |-> DialogResult(response)]]
    /\ workers' = [workers EXCEPT ![w] = 0]
    /\ UNCHANGED <<fs, queue, rtRest>>

NextRt ==
    \/ Setup
    \/ \E i \in InvIds, cmd \in AsyncCmds : InvokeAsync(i, cmd)
    \/ \E i \in InvIds : InvokeSync(i)
    \/ \E w \in WorkerIds : Poll(w)
    \/ \E w \in WorkerIds : RunFile(w)
    \/ \E w \in WorkerIds : ShowDialog(w)
    \/ \E w \in WorkerIds, response \in DialogResponses : UserResponds(w, response)

\* The runtime keeps its threads busy: a task that can be taken or run is.
\* Nothing makes the user respond, and nothing makes the front-end invoke.
FairRt ==
    /\ WF_vars(Setup)
    /\ \A w \in WorkerIds : WF_vars(Poll(w))
    /\ \A w \in WorkerIds : WF_vars(RunFile(w))
    /\ \A w \in WorkerIds : WF_vars(ShowDialog(w))

SpecRt == InitFiles /\ [][NextRt]_vars /\ FairRt

\* C8: a pending dialog blocks only its own invocation. While any number of
\* dialog calls wait for the user, possibly forever, every other command
\* that is invoked still runs to completion.
C8_OthersComplete ==
    \A i \in InvIds :
        (inv[i].st # "none" /\ inv[i].cmd \notin DialogCmds) ~> (inv[i].st = "done")

====
